---------------------------- MODULE Spec2Model ----------------------------
(***************************************************************************)
(* Model of the st_proxy API forwarder (src/main.go).                      *)
(*                                                                         *)
(* Strings are sequences of one-character strings, so that prefix tests,   *)
(* trimming, concatenation, substring search and URL parsing are computed  *)
(* character by character, as the Go code computes them.                   *)
(***************************************************************************)
EXTENDS Integers, Sequences, FiniteSets, TLC

(***************************************************************************)
(* Bounds of the model.                                                    *)
(***************************************************************************)
MaxPathLen == 6      \* longest generated inbound path, in characters
MaxFlagLen == 2      \* longest generated raw -prefix flag, in characters
MaxErrLen  == 3      \* longest generated failure description, in words
NumReq     == 2      \* request slots served concurrently
MaxCookies == 2      \* most Set-Cookie values on a generated backend response

(***************************************************************************)
(* package strings                                                         *)
(***************************************************************************)
HasPrefix(s, p) == Len(s) >= Len(p) /\ SubSeq(s, 1, Len(p)) = p

HasSuffix(s, p) == Len(s) >= Len(p) /\ SubSeq(s, Len(s) - Len(p) + 1, Len(s)) = p

TrimPrefix(s, p) == IF HasPrefix(s, p) THEN SubSeq(s, Len(p) + 1, Len(s)) ELSE s

Contains(s, sub) ==
    \E i \in 0..(Len(s) - Len(sub)) : SubSeq(s, i + 1, i + Len(sub)) = sub

\* strings.Index for a one-character needle: 1-based position, 0 when absent
Index(s, c) ==
    IF \E i \in 1..Len(s) : s[i] = c
    THEN CHOOSE i \in 1..Len(s) : s[i] = c /\ \A j \in 1..(i - 1) : s[j] # c
    ELSE 0

Count(s, c) == Cardinality({i \in 1..Len(s) : s[i] = c})

\* the part of s before / after the first c (strings.Cut)
CutBefore(s, c) == IF Index(s, c) = 0 THEN s ELSE SubSeq(s, 1, Index(s, c) - 1)

CutAfter(s, c) == IF Index(s, c) = 0 THEN <<>> ELSE SubSeq(s, Index(s, c) + 1, Len(s))

\* all sequences over alphabet A of length at most n
RECURSIVE SeqsUpTo(_, _)
SeqsUpTo(A, n) ==
    IF n = 0 THEN {<<>>}
    ELSE LET shorter == SeqsUpTo(A, n - 1)
         IN  shorter \cup {Append(s, a) : s \in shorter, a \in A}


(***************************************************************************)
(* Character classes and literals                                          *)
(***************************************************************************)
Letters ==
    {"a", "b", "c", "d", "e", "f", "g", "h", "i", "j", "k", "l", "m",
     "n", "o", "p", "q", "r", "s", "t", "u", "v", "w", "x", "y", "z"}

Digits == {"0", "1", "2", "3", "4", "5", "6", "7", "8", "9"}

Slash == <<"/">>

EmptyString == <<>>

(***************************************************************************)
(* package net/url, as called by main: url.Parse(backendURL).  Characters  *)
(* outside the modelled alphabet ("@", "[", "%", control bytes) do not     *)
(* occur in the generated flag values, so user-info, IPv6 literals and     *)
(* percent-decoding are not modelled.                                      *)
(***************************************************************************)
NoError == "nil"

\* first position at which getScheme's loop returns, Len(raw) + 1 when the
\* loop runs to the end
SchemeStop(raw) ==
    LET stops(i) == \/ raw[i] = ":"
                    \/ raw[i] \notin (Letters \cup Digits \cup {"+", "-", "."})
                    \/ (i = 1 /\ raw[i] \notin Letters)
    IN  IF \E i \in 1..Len(raw) : stops(i)
        THEN CHOOSE i \in 1..Len(raw) : stops(i) /\ \A j \in 1..(i - 1) : ~stops(j)
        ELSE Len(raw) + 1

getScheme(raw) ==
    LET i == SchemeStop(raw)
    IN  IF i > Len(raw) \/ raw[i] # ":"
        THEN [scheme |-> EmptyString, rest |-> raw, err |-> NoError]
        ELSE IF i = 1
        THEN [scheme |-> EmptyString, rest |-> EmptyString, err |-> "missing protocol scheme"]
        ELSE [scheme |-> SubSeq(raw, 1, i - 1), rest |-> SubSeq(raw, i + 1, Len(raw)),
              err |-> NoError]

LastIndex(s, c) ==
    IF \E i \in 1..Len(s) : s[i] = c
    THEN CHOOSE i \in 1..Len(s) : s[i] = c /\ \A j \in (i + 1)..Len(s) : s[j] # c
    ELSE 0

\* parseHost: a port, when present, is ":" followed by digits only
parseHost(host) ==
    LET i == LastIndex(host, ":")
    IN  IF i # 0 /\ \E j \in (i + 1)..Len(host) : host[j] \notin Digits
        THEN [host |-> EmptyString, err |-> "invalid port after host"]
        ELSE [host |-> host, err |-> NoError]

EmptyURL ==
    [Scheme |-> EmptyString, Opaque |-> EmptyString, Host |-> EmptyString,
     Path |-> EmptyString, RawQuery |-> EmptyString, Fragment |-> EmptyString]

\* url.parse(rawURL, viaRequest = false)
parse(rawURL) ==
    LET sch  == getScheme(rawURL)
        force == HasSuffix(sch.rest, <<"?">>) /\ Count(sch.rest, "?") = 1
        rest0 == IF force THEN SubSeq(sch.rest, 1, Len(sch.rest) - 1)
                 ELSE CutBefore(sch.rest, "?")
        query == IF force THEN EmptyString ELSE CutAfter(sch.rest, "?")
        u0    == [EmptyURL EXCEPT !.Scheme = sch.scheme, !.RawQuery = query]
        hasAuthority ==
            /\ sch.scheme # EmptyString \/ ~HasPrefix(rest0, <<"/", "/", "/">>)
            /\ HasPrefix(rest0, <<"/", "/">>)
        afterSlashes == SubSeq(rest0, 3, Len(rest0))
        authority == CutBefore(afterSlashes, "/")
        rest1 == IF Index(afterSlashes, "/") = 0 THEN EmptyString
                 ELSE SubSeq(afterSlashes, Index(afterSlashes, "/"), Len(afterSlashes))
        h == parseHost(authority)
    IN  IF rawURL = <<"*">> THEN [url |-> [EmptyURL EXCEPT !.Path = <<"*">>], err |-> NoError]
        ELSE IF sch.err # NoError THEN [url |-> EmptyURL, err |-> sch.err]
        ELSE IF ~HasPrefix(rest0, Slash) /\ sch.scheme # EmptyString
        THEN [url |-> [u0 EXCEPT !.Opaque = rest0], err |-> NoError]
        ELSE IF ~HasPrefix(rest0, Slash) /\ Contains(CutBefore(rest0, "/"), <<":">>)
        THEN [url |-> EmptyURL, err |-> "first path segment in URL cannot contain colon"]
        ELSE IF hasAuthority
        THEN IF h.err # NoError THEN [url |-> EmptyURL, err |-> h.err]
             ELSE [url |-> [u0 EXCEPT !.Host = h.host, !.Path = rest1], err |-> NoError]
        ELSE [url |-> [u0 EXCEPT !.Path = rest0], err |-> NoError]

\* url.Parse: the fragment is cut off first, the rest is parsed
Parse(rawURL) ==
    LET p == parse(CutBefore(rawURL, "#"))
    IN  IF p.err # NoError THEN p
        ELSE [url |-> [p.url EXCEPT !.Fragment = CutAfter(rawURL, "#")], err |-> NoError]

(***************************************************************************)
(* State                                                                   *)
(***************************************************************************)
VARIABLES
    phase,              \* "boot", "configured" (init returned), "serving", "fatal"
    frontendAPIPrefix,  \* global, set by init only
    backendURL,         \* global, set by init only
    port,               \* global, set by init only
    backend,            \* main's local *url.URL, captured by the Director
    conn                \* per request slot: position in the handler and its data

vars == <<phase, frontendAPIPrefix, backendURL, port, backend, conn>>

config == <<frontendAPIPrefix, backendURL, port, backend>>

Slots == 1..NumReq

(***************************************************************************)
(* http.Header: header name -> values in order; <<>> stands for an absent  *)
(* key.  Names are in canonical form, as net/http stores and looks them up.*)
(***************************************************************************)
ForwardingHeaders == {"X-Forwarded-Host", "X-Real-IP", "X-Forwarded-For", "X-Forwarded-Proto"}

HeaderNames ==
    ForwardingHeaders \cup {"Connection", "Cookie", "Accept", "Upgrade", "User-Agent"}

Del(h, k) == [h EXCEPT ![k] = <<>>]

Set(h, k, v) == [h EXCEPT ![k] = <<v>>]

NoHeader == [k \in HeaderNames |-> <<>>]

ResponseHeaderNames == {"Set-Cookie", "Content-Type", "Connection"}

NoURL == [Scheme |-> EmptyString, Host |-> EmptyString, Path |-> EmptyString,
          RawQuery |-> EmptyString]

NoRequest ==
    [Method |-> "", URL |-> NoURL, Host |-> EmptyString, Header |-> NoHeader,
     RemoteAddr |-> [IP |-> "", Port |-> ""]]

NoResponse ==
    [StatusCode |-> 0, Header |-> [k \in ResponseHeaderNames |-> <<>>], Body |-> <<>>]

\* what the caller has been sent: WriteHeader calls so far, status, headers, body
NoReply == [writes |-> 0, status |-> 0, Header |-> [k \in ResponseHeaderNames |-> <<>>],
            Body |-> <<>>]

IdleConn ==
    [stage |-> "idle", in |-> NoRequest, out |-> NoRequest, wire |-> NoRequest,
     resp |-> NoResponse, err |-> EmptyString, reply |-> NoReply]

(***************************************************************************)
(* init(): flag parsing, validation, normalisation (main.go 23-55)         *)
(***************************************************************************)
NormalizePrefix(p) ==
    LET p1 == IF ~HasPrefix(p, Slash) THEN Slash \o p ELSE p
    IN  IF ~HasSuffix(p1, Slash) THEN p1 \o Slash ELSE p1

NormalizeBackendURL(b) == IF ~HasSuffix(b, Slash) THEN b \o Slash ELSE b

\* the three flag values are the inputs; an empty one is fatal
init(prefixFlag, backendFlag, portFlag) ==
    /\ phase = "boot"
    /\ IF prefixFlag = EmptyString \/ backendFlag = EmptyString \/ portFlag = EmptyString
       THEN /\ phase' = "fatal"
            /\ frontendAPIPrefix' = prefixFlag
            /\ backendURL' = backendFlag
            /\ port' = portFlag
       ELSE /\ phase' = "configured"
            /\ frontendAPIPrefix' = NormalizePrefix(prefixFlag)
            /\ backendURL' = NormalizeBackendURL(backendFlag)
            /\ port' = portFlag
    /\ UNCHANGED <<backend, conn>>

(***************************************************************************)
(* main(): parse the backend URL, build the proxy, start serving           *)
(* (main.go 57-73, 175-212)                                                *)
(***************************************************************************)
main ==
    /\ phase = "configured"
    /\ LET p == Parse(backendURL)
       IN  IF p.err # NoError
           THEN phase' = "fatal" /\ backend' = backend
           ELSE phase' = "serving" /\ backend' = p.url
    /\ UNCHANGED <<frontendAPIPrefix, backendURL, port, conn>>

(***************************************************************************)
(* proxy.Director (main.go 76-112)                                         *)
(***************************************************************************)
\* faulty variant: the prefix is matched without its trailing slash
PathMappingLoosePrefix(originalPath) ==
    LET bare == SubSeq(frontendAPIPrefix, 1, Len(frontendAPIPrefix) - 1)
        remainder ==
            IF HasPrefix(originalPath, bare)
            THEN LET trimmed == TrimPrefix(originalPath, bare)
                 IN  IF trimmed = EmptyString THEN Slash ELSE trimmed
            ELSE originalPath
    IN  backend.Path \o TrimPrefix(remainder, Slash)

\* lines 84-95: strip the frontend prefix, join with the backend base path
PathMapping(originalPath) ==
    LET remainder ==
            IF HasPrefix(originalPath, frontendAPIPrefix)
            THEN LET trimmed == TrimPrefix(originalPath, frontendAPIPrefix)
                 IN  IF trimmed = EmptyString THEN Slash ELSE trimmed
            ELSE originalPath
    IN  backend.Path \o TrimPrefix(remainder, Slash)

\* faulty variant: the Cookie header is deleted with the proxy headers
HeaderRemovalDropsCookie(h) ==
    Del(Del(Del(Del(Del(h, "X-Forwarded-Host"), "X-Real-IP"), "X-Forwarded-For"),
            "X-Forwarded-Proto"), "Cookie")

\* lines 100-104: req.Header.Del of the four proxy headers
HeaderRemoval(h) ==
    Del(Del(Del(Del(h, "X-Forwarded-Host"), "X-Real-IP"), "X-Forwarded-For"),
        "X-Forwarded-Proto")

\* lines 106-107: req.Header.Set("Connection", "close")
ConnectionHeader(h) == Set(h, "Connection", "close")

Director(req) ==
    [req EXCEPT !.URL.Scheme = backend.Scheme,
                !.URL.Host   = backend.Host,
                !.URL.Path   = PathMapping(req.URL.Path),
                !.Host       = backend.Host,
                !.Header     = ConnectionHeader(HeaderRemoval(req.Header))]

(***************************************************************************)
(* proxy.ModifyResponse (main.go 135-158): logs, returns nil               *)
(***************************************************************************)
\* faulty variant: a backend error status is turned into an error
ModifyResponseRejectsErrors(resp) ==
    [resp |-> resp, err |-> IF resp.StatusCode >= 400 THEN "bad status" ELSE NoError]

ModifyResponse(resp) == [resp |-> resp, err |-> NoError]

(***************************************************************************)
(* proxy.ErrorHandler (main.go 161-172)                                    *)
(***************************************************************************)
StatusGatewayTimeout == 504

StatusServiceUnavailable == 503

StatusBadGateway == 502

\* faulty variant: "connection refused" is tested before "timeout"
ErrorHandlerRefusedFirst(err) ==
    IF Contains(err, <<"connection", "refused">>)
    THEN [status |-> StatusServiceUnavailable, body |-> <<"Service Unavailable">>]
    ELSE IF Contains(err, <<"timeout">>)
    THEN [status |-> StatusGatewayTimeout, body |-> <<"Gateway Timeout">>]
    ELSE [status |-> StatusBadGateway, body |-> <<"Bad Gateway">>]

\* faulty variant: an unclassified failure is answered 500 Internal Server Error
ErrorHandlerDefault500(err) ==
    IF Contains(err, <<"timeout">>)
    THEN [status |-> StatusGatewayTimeout, body |-> <<"Gateway Timeout">>]
    ELSE IF Contains(err, <<"connection", "refused">>)
    THEN [status |-> StatusServiceUnavailable, body |-> <<"Service Unavailable">>]
    ELSE [status |-> 500, body |-> <<"Internal Server Error">>]

ErrorHandler(err) ==
    IF Contains(err, <<"timeout">>)
    THEN [status |-> StatusGatewayTimeout, body |-> <<"Gateway Timeout">>]
    ELSE IF Contains(err, <<"connection", "refused">>)
    THEN [status |-> StatusServiceUnavailable, body |-> <<"Service Unavailable">>]
    ELSE [status |-> StatusBadGateway, body |-> <<"Bad Gateway">>]

(***************************************************************************)
(* httputil.ReverseProxy.ServeHTTP, the steps it runs around the three     *)
(* callbacks when a Director (not a Rewrite) is installed, as the proxy    *)
(* built at main.go 73 and called at main.go 198 does.                     *)
(***************************************************************************)
HopHeaders == {"Connection", "Proxy-Connection", "Keep-Alive", "Proxy-Authenticate",
               "Proxy-Authorization", "Te", "Trailer", "Transfer-Encoding", "Upgrade"}

\* headers named by a Connection value, then the fixed hop-by-hop list
removeHopByHopHeaders(h) ==
    [k \in DOMAIN h |->
        IF k \in HopHeaders \/ \E i \in 1..Len(h["Connection"]) : h["Connection"][i] = k
        THEN <<>> ELSE h[k]]

upgradeType(h) ==
    IF \E i \in 1..Len(h["Connection"]) : h["Connection"][i] = "Upgrade"
    THEN (IF h["Upgrade"] = <<>> THEN "" ELSE h["Upgrade"][1])
    ELSE ""

RECURSIVE JoinComma(_)
JoinComma(vs) ==
    IF Len(vs) = 0 THEN ""
    ELSE IF Len(vs) = 1 THEN vs[1]
    ELSE vs[1] \o ", " \o JoinComma(Tail(vs))

\* the request handed to the transport: the Director's request with the
\* hop-by-hop headers removed, an upgrade re-announced, the client address
\* appended to X-Forwarded-For and a missing User-Agent set to ""
OutboundRequest(in, directed) ==
    LET reqUpType == upgradeType(directed.Header)
        h1 == removeHopByHopHeaders(directed.Header)
        h2 == IF reqUpType # ""
              THEN Set(Set(h1, "Connection", "Upgrade"), "Upgrade", reqUpType)
              ELSE h1
        prior == h2["X-Forwarded-For"]
        clientIP == IF Len(prior) > 0 THEN JoinComma(prior) \o ", " \o in.RemoteAddr.IP
                    ELSE in.RemoteAddr.IP
        h3 == Set(h2, "X-Forwarded-For", clientIP)
        h4 == IF h3["User-Agent"] = <<>> THEN Set(h3, "User-Agent", "") ELSE h3
    IN  [directed EXCEPT !.Header = h4]

(***************************************************************************)
(* One request through the server's handler (main.go 177-199) and          *)
(* proxy.ServeHTTP.  w is the workload: the sets the inputs are drawn from.*)
(***************************************************************************)
LocalHost == <<"l", "o", "c", "a", "l", "h", "o", "s", "t">>

\* faulty variant: the server handles one request at a time
HandlerSerial(r, w) ==
    /\ phase = "serving"
    /\ \A r2 \in Slots : conn[r2].stage = "idle"
    /\ \E m \in w.methods, path \in w.paths, q \in w.queries, h \in w.headers,
          ip \in w.callers :
          conn' = [conn EXCEPT ![r] =
              [IdleConn EXCEPT
                  !.stage = "received",
                  !.in = [Method |-> m,
                          URL |-> [NoURL EXCEPT !.Path = path, !.RawQuery = q],
                          Host |-> LocalHost,
                          Header |-> h,
                          RemoteAddr |-> [IP |-> ip, Port |-> "51234"]]]]
    /\ UNCHANGED <<phase, config>>

\* the handler is entered with a request read from a caller's connection
Handler(r, w) ==
    /\ phase = "serving"
    /\ conn[r].stage = "idle"
    /\ \E m \in w.methods, path \in w.paths, q \in w.queries, h \in w.headers,
          ip \in w.callers :
          conn' = [conn EXCEPT ![r] =
              [IdleConn EXCEPT
                  !.stage = "received",
                  !.in = [Method |-> m,
                          URL |-> [NoURL EXCEPT !.Path = path, !.RawQuery = q],
                          Host |-> LocalHost,
                          Header |-> h,
                          RemoteAddr |-> [IP |-> ip, Port |-> "51234"]]]]
    /\ UNCHANGED <<phase, config>>

\* ServeHTTP clones the request and runs the Director on the clone
ServeDirector(r) ==
    /\ conn[r].stage = "received"
    /\ conn' = [conn EXCEPT ![r].stage = "directed",
                            ![r].out = Director(conn[r].in)]
    /\ UNCHANGED <<phase, config>>

\* ServeHTTP finishes the outbound request and hands it to the transport
ServeSend(r) ==
    /\ conn[r].stage = "directed"
    /\ conn' = [conn EXCEPT ![r].stage = "sent",
                            ![r].wire = OutboundRequest(conn[r].in, conn[r].out)]
    /\ UNCHANGED <<phase, config>>

\* transport.RoundTrip returns a response of the backend
RoundTripResponse(r, w) ==
    /\ conn[r].stage = "sent"
    /\ \E resp \in w.responses :
          conn' = [conn EXCEPT ![r].stage = "responded", ![r].resp = resp]
    /\ UNCHANGED <<phase, config>>

\* transport.RoundTrip returns an error (dial, TLS, header timeout, reset)
RoundTripError(r, w) ==
    /\ conn[r].stage = "sent"
    /\ \E e \in w.errors :
          conn' = [conn EXCEPT ![r].stage = "failed", ![r].err = e]
    /\ UNCHANGED <<phase, config>>

\* http.Error as used by the ErrorHandler: one WriteHeader and a text body
WriteError(reply, e) ==
    [reply EXCEPT !.writes = @ + 1, !.status = ErrorHandler(e).status,
                  !.Body = ErrorHandler(e).body]

\* ServeHTTP after a response: hop-by-hop headers dropped, ModifyResponse
\* called; on nil the status and headers are written to the caller, on an
\* error the ErrorHandler answers instead
ServeModifyResponse(r) ==
    /\ conn[r].stage = "responded"
    /\ LET res == [conn[r].resp EXCEPT !.Header = removeHopByHopHeaders(@)]
           m   == ModifyResponse(res)
       IN  IF m.err # NoError
           THEN conn' = [conn EXCEPT ![r].stage = "done",
                                     ![r].err = <<m.err>>,
                                     ![r].reply = WriteError(@, <<m.err>>)]
           ELSE conn' = [conn EXCEPT ![r].stage = "relaying",
                                     ![r].reply = [@ EXCEPT !.writes = @ + 1,
                                                            !.status = m.resp.StatusCode,
                                                            !.Header = m.resp.Header]]
    /\ UNCHANGED <<phase, config>>

\* copyResponse streams the whole body
CopyResponse(r) ==
    /\ conn[r].stage = "relaying"
    /\ conn' = [conn EXCEPT ![r].stage = "done", ![r].reply.Body = conn[r].resp.Body]
    /\ UNCHANGED <<phase, config>>

\* copyResponse fails part-way (backend connection reset while streaming):
\* ServeHTTP panics with http.ErrAbortHandler, net/http recovers it for this
\* connection only and closes the caller's connection
CopyAbort(r) ==
    /\ conn[r].stage = "relaying"
    /\ \E n \in 0..(Len(conn[r].resp.Body) - 1) :
          conn' = [conn EXCEPT ![r].stage = "aborted",
                               ![r].reply.Body = SubSeq(conn[r].resp.Body, 1, n)]
    /\ UNCHANGED <<phase, config>>

\* ServeHTTP after a transport error: the ErrorHandler answers the caller
ServeErrorHandler(r) ==
    /\ conn[r].stage = "failed"
    /\ conn' = [conn EXCEPT ![r].stage = "done",
                            ![r].reply = WriteError(@, conn[r].err)]
    /\ UNCHANGED <<phase, config>>

\* the handler has returned; the slot serves the next request
Finish(r) ==
    /\ conn[r].stage \in {"done", "aborted"}
    /\ conn' = [conn EXCEPT ![r] = IdleConn]
    /\ UNCHANGED <<phase, config>>

Init ==
    /\ phase = "boot"
    /\ frontendAPIPrefix = EmptyString
    /\ backendURL = EmptyString
    /\ port = EmptyString
    /\ backend = EmptyURL
    /\ conn = [r \in Slots |-> IdleConn]

Startup(w) ==
    \E pf \in w.prefixes, bf \in w.backends, po \in w.ports : init(pf, bf, po)

Serve(w) ==
    \E r \in w.slots :
        \/ Handler(r, w)
        \/ ServeDirector(r)
        \/ ServeSend(r)
        \/ RoundTripResponse(r, w)
        \/ RoundTripError(r, w)
        \/ ServeModifyResponse(r)
        \/ CopyResponse(r)
        \/ CopyAbort(r)
        \/ ServeErrorHandler(r)
        \/ Finish(r)

(***************************************************************************)
(* Workloads                                                               *)
(***************************************************************************)
PathAlphabet == {"/", "a"}

\* request paths as net/http delivers them: empty (absolute-form target
\* without a path) or starting with "/"; the server does not clean them
AllPaths == {p \in SeqsUpTo(PathAlphabet, MaxPathLen) : p = <<>> \/ p[1] = "/"}

PrefixFlags == SeqsUpTo(PathAlphabet, MaxFlagLen)

ApiPrefix == <<"/", "a", "p", "i", "/">>

ExampleBackend ==
    <<"h", "t", "t", "p", "s", ":", "/", "/", "e", "x", "a", "m", "p", "l", "e", ".",
      "c", "o", "m", "/", "v", "1", "/">>

BackendFlags ==
    { <<>>,                                              \* empty: fatal in init
      <<"h", ":", "/", "/", "b">>,                       \* h://b
      <<"h", ":", "/", "/", "b", "/">>,                  \* h://b/
      <<"h", ":", "/", "/", "b", "/", "v">>,             \* h://b/v
      <<"h", ":", "/", "/", "b", "/", "v", "/">>,        \* h://b/v/
      <<"h", ":", "/", "/", "b", ":", "8", "/", "v">>,   \* h://b:8/v
      <<"h", ":", "/", "/", "b", "/", "v", "?", "q">>,   \* h://b/v?q
      <<"h", ":", "/", "/", "b", "?", "q">>,             \* h://b?q
      <<"h", ":", "/", "/", "b", "/", "v", "#", "f">>,   \* h://b/v#f
      <<"h", ":", "/", "/", "b", "/", "v", "?">>,        \* h://b/v?
      <<"b", "/", "v">>,                                 \* b/v (no scheme)
      <<":", "/">>,                                      \* missing scheme
      <<"1", ":", "/">>,                                 \* colon in first segment
      <<"h", ":", "/", "/", "b", ":", "x">>,             \* invalid port
      ExampleBackend }

DefaultPort == <<":", "8", "0", "8", "0">>

PlainResponse ==
    [StatusCode |-> 200,
     Header |-> [k \in ResponseHeaderNames |-> <<>>],
     Body |-> <<"chunk1", "chunk2">>]

PlainHeader == [NoHeader EXCEPT !["Accept"] = <<"*/*">>]

\* every configuration, every path, one plain request shape
PathWorkload ==
    [prefixes |-> PrefixFlags \cup {ApiPrefix}, backends |-> BackendFlags,
     ports |-> {DefaultPort, EmptyString},
     slots |-> {1}, methods |-> {"GET"}, paths |-> AllPaths, queries |-> {EmptyString},
     headers |-> {PlainHeader}, callers |-> {"192.0.2.7"},
     responses |-> {PlainResponse}, errors |-> {<<"reset">>}]

NextPath == Startup(PathWorkload) \/ main \/ Serve(PathWorkload)

SpecPath == Init /\ [][NextPath]_vars

\* backend URLs of the documented shape: scheme, host, path, nothing after it
PlainBackends ==
    {b \in BackendFlags : HasPrefix(b, <<"h">>) /\ Index(b, "?") = 0 /\ Index(b, "#") = 0}

PlainWorkload == [PathWorkload EXCEPT !.backends = PlainBackends]

NextPlain == Startup(PlainWorkload) \/ main \/ Serve(PlainWorkload)

SpecPlain == Init /\ [][NextPlain]_vars

(***************************************************************************)
(* Path mapping properties, checked under SpecPath                         *)
(***************************************************************************)
\* the Director has run for the request in slot r
Directed(r) ==
    conn[r].stage \in {"directed", "sent", "responded", "failed", "relaying", "done",
                       "aborted"}

\* the request in slot r has been handed to the transport
Sent(r) ==
    conn[r].stage \in {"sent", "responded", "failed", "relaying", "done", "aborted"}

InPath(r) == conn[r].in.URL.Path

OutPath(r) == conn[r].out.URL.Path

\* C1: for every inbound path P that starts with the frontend prefix, the
\* Director's outbound path is backend.Path followed by P without the prefix
\* and without a leading "/"; when P is exactly the prefix the outbound path
\* is the backend base path and is not the empty string.
C1_PrefixedPathRewrite ==
    \A r \in Slots :
        (Directed(r) /\ HasPrefix(InPath(r), frontendAPIPrefix)) =>
            /\ OutPath(r) =
                  backend.Path \o TrimPrefix(TrimPrefix(InPath(r), frontendAPIPrefix), Slash)
            /\ InPath(r) = frontendAPIPrefix =>
                  (OutPath(r) = backend.Path /\ OutPath(r) # EmptyString)

\* C2: for every normalised configuration and every inbound path the
\* outbound path has exactly one "/" where the backend base path and the
\* remainder meet: the base path's last character is "/" and the character
\* after it, if any, is not "/".
C2_SingleSlashAtJoin ==
    \A r \in Slots :
        Directed(r) =>
            LET n == Len(backend.Path)
            IN  /\ n >= 1
                /\ OutPath(r)[n] = "/"
                /\ Len(OutPath(r)) > n => OutPath(r)[n + 1] # "/"

\* C10: an inbound path that does not start with the frontend prefix is
\* forwarded, not rejected: its outbound path is backend.Path followed by the
\* path without one leading "/", nothing is written to the caller before the
\* backend call ends, and without a transport failure the caller gets the
\* backend's status.
C10_UnprefixedPassThrough ==
    \A r \in Slots :
        (Directed(r) /\ ~HasPrefix(InPath(r), frontendAPIPrefix)) =>
            /\ OutPath(r) = backend.Path \o TrimPrefix(InPath(r), Slash)
            /\ conn[r].stage \in {"directed", "sent"} => conn[r].reply.writes = 0
            /\ (conn[r].stage = "done" /\ conn[r].err = EmptyString) =>
                  conn[r].reply.status = conn[r].resp.StatusCode

\* a request for the prefix without its trailing slash has been answered
\* with the backend's response
C10_Witness ==
    \E r \in Slots :
        /\ conn[r].stage = "done"
        /\ InPath(r) \o Slash = frontendAPIPrefix
        /\ Len(InPath(r)) > 1
        /\ conn[r].reply.status = 200
        /\ OutPath(r) = backend.Path \o Tail(InPath(r))

(***************************************************************************)
(* Header properties, checked under SpecHdr: the documented configuration, *)
(* every combination of inbound headers                                    *)
(***************************************************************************)
HeaderChoices ==
    [k \in HeaderNames |->
        CASE k = "X-Forwarded-For" -> {<<>>, <<"10.0.0.1">>, <<"10.0.0.1", "10.0.0.2">>}
          [] k = "Connection"      -> {<<>>, <<"keep-alive">>, <<"close">>, <<"Upgrade">>}
          [] k = "Cookie"          -> {<<>>, <<"session=abc123">>, <<"a=1", "b=2">>}
          [] k = "Accept"          -> {<<>>, <<"*/*">>}
          [] k = "Upgrade"         -> {<<>>, <<"websocket">>}
          [] k = "User-Agent"      -> {<<>>, <<"curl">>}
          [] OTHER                 -> {<<>>, <<"front.example">>}]

AllHeaders ==
    { [k \in HeaderNames |->
          CASE k = "X-Forwarded-Host"  -> fh
            [] k = "X-Real-IP"         -> ri
            [] k = "X-Forwarded-For"   -> ff
            [] k = "X-Forwarded-Proto" -> fp
            [] k = "Connection"        -> co
            [] k = "Cookie"            -> ck
            [] k = "Accept"            -> ac
            [] k = "Upgrade"           -> up
            [] OTHER                   -> ua] :
        fh \in HeaderChoices["X-Forwarded-Host"], ri \in HeaderChoices["X-Real-IP"],
        ff \in HeaderChoices["X-Forwarded-For"], fp \in HeaderChoices["X-Forwarded-Proto"],
        co \in HeaderChoices["Connection"], ck \in HeaderChoices["Cookie"],
        ac \in HeaderChoices["Accept"], up \in HeaderChoices["Upgrade"],
        ua \in HeaderChoices["User-Agent"] }

UsersPath == <<"/", "a", "p", "i", "/", "u", "s", "e", "r", "s">>

QueryX1 == <<"x", "=", "1">>

HeaderWorkload ==
    [prefixes |-> {ApiPrefix}, backends |-> {ExampleBackend}, ports |-> {DefaultPort},
     slots |-> {1}, methods |-> {"GET", "POST"}, paths |-> {UsersPath},
     queries |-> {EmptyString, QueryX1}, headers |-> AllHeaders,
     callers |-> {"192.0.2.7"}, responses |-> {PlainResponse}, errors |-> {<<"reset">>}]

NextHdr == Startup(HeaderWorkload) \/ main \/ Serve(HeaderWorkload)

SpecHdr == Init /\ [][NextHdr]_vars

\* C3: none of X-Forwarded-Host, X-Real-IP, X-Forwarded-For, X-Forwarded-Proto
\* is on a request handed to the transport, whatever the inbound request
\* carried.
C3_ForwardingHeadersAbsentOnWire ==
    \A r \in Slots :
        Sent(r) => \A k \in ForwardingHeaders : conn[r].wire.Header[k] = <<>>

\* C8: every request handed to the transport carries Connection: close.
C8_ConnectionCloseOnWire ==
    \A r \in Slots : Sent(r) => conn[r].wire.Header["Connection"] = <<"close">>

\* url.URL.String for the forms the model produces
URLString(u) ==
    (IF u.Scheme = EmptyString THEN EmptyString ELSE u.Scheme \o <<":">>)
    \o (IF u.Host = EmptyString THEN EmptyString ELSE <<"/", "/">> \o u.Host)
    \o u.Path
    \o (IF u.RawQuery = EmptyString THEN EmptyString ELSE <<"?">> \o u.RawQuery)

ExampleOutbound ==
    <<"h", "t", "t", "p", "s", ":", "/", "/", "e", "x", "a", "m", "p", "l", "e", ".",
      "c", "o", "m", "/", "v", "1", "/", "u", "s", "e", "r", "s", "?", "x", "=", "1">>

ErrWords == {"timeout", "connection", "refused", "reset"}

AllErrors == SeqsUpTo(ErrWords, MaxErrLen)

ErrorWorkload ==
    [prefixes |-> {ApiPrefix}, backends |-> {ExampleBackend}, ports |-> {DefaultPort},
     slots |-> {1}, methods |-> {"GET"}, paths |-> {UsersPath},
     queries |-> {EmptyString}, headers |-> {PlainHeader},
     callers |-> {"192.0.2.7"}, responses |-> {PlainResponse}, errors |-> AllErrors]

NextErr == Startup(ErrorWorkload) \/ main \/ Serve(ErrorWorkload)

SpecErr == Init /\ [][NextErr]_vars

\* the ErrorHandler has answered the transport failure of the request in slot r
Classified(r) == conn[r].stage = "done" /\ conn[r].resp = NoResponse

\* C4 as stated: a description containing "timeout" yields 504, one
\* containing "connection refused" yields 503, any other yields 502, and the
\* status is always one of the three.
C4_Claim ==
    \A r \in Slots :
        Classified(r) =>
            /\ Contains(conn[r].err, <<"timeout">>) =>
                  conn[r].reply.status = StatusGatewayTimeout
            /\ Contains(conn[r].err, <<"connection", "refused">>) =>
                  conn[r].reply.status = StatusServiceUnavailable
            /\ (~Contains(conn[r].err, <<"timeout">>)
                /\ ~Contains(conn[r].err, <<"connection", "refused">>)) =>
                  conn[r].reply.status = StatusBadGateway
            /\ conn[r].reply.status \in
                  {StatusGatewayTimeout, StatusServiceUnavailable, StatusBadGateway}

\* C4 amended: "timeout" is tested first, so 503 is the answer to a
\* description that contains "connection refused" and not "timeout"; the
\* handler writes exactly one status, one of 502, 503, 504.
C4_OrderedClassification ==
    \A r \in Slots :
        Classified(r) =>
            /\ Contains(conn[r].err, <<"timeout">>) =>
                  conn[r].reply.status = StatusGatewayTimeout
            /\ (Contains(conn[r].err, <<"connection", "refused">>)
                /\ ~Contains(conn[r].err, <<"timeout">>)) =>
                  conn[r].reply.status = StatusServiceUnavailable
            /\ (~Contains(conn[r].err, <<"timeout">>)
                /\ ~Contains(conn[r].err, <<"connection", "refused">>)) =>
                  conn[r].reply.status = StatusBadGateway
            /\ conn[r].reply.status \in
                  {StatusGatewayTimeout, StatusServiceUnavailable, StatusBadGateway}
            /\ conn[r].reply.writes = 1

\* a failure naming both "connection refused" and "timeout" has been answered
C4_Witness ==
    \E r \in Slots :
        /\ Classified(r)
        /\ Contains(conn[r].err, <<"connection", "refused">>)
        /\ Contains(conn[r].err, <<"timeout">>)
        /\ conn[r].reply.status = StatusGatewayTimeout

(***************************************************************************)
(* Response relay, checked under SpecResp: backend responses of several    *)
(* statuses with up to MaxCookies Set-Cookie values.  1xx responses are    *)
(* handled inside the transport or switch protocols and are not generated. *)
(***************************************************************************)
Statuses == {200, 204, 302, 404, 500, 503}

CookieValues == {"sid=1; Path=/", "theme=dark"}

AllResponses ==
    { [StatusCode |-> st,
       Header |-> [k \in ResponseHeaderNames |->
                      CASE k = "Set-Cookie"   -> ck
                        [] k = "Content-Type" -> ct
                        [] OTHER              -> co],
       Body |-> bd] :
        st \in Statuses, ck \in SeqsUpTo(CookieValues, MaxCookies),
        ct \in {<<>>, <<"application/json">>}, co \in {<<>>, <<"keep-alive">>},
        bd \in {<<>>, <<"chunk1", "chunk2">>} }

ResponseWorkload ==
    [prefixes |-> {ApiPrefix}, backends |-> {ExampleBackend}, ports |-> {DefaultPort},
     slots |-> {1}, methods |-> {"GET"}, paths |-> {UsersPath},
     queries |-> {EmptyString}, headers |-> {PlainHeader},
     callers |-> {"192.0.2.7"}, responses |-> AllResponses, errors |-> {<<"reset">>}]

NextResp == Startup(ResponseWorkload) \/ main \/ Serve(ResponseWorkload)

SpecResp == Init /\ [][NextResp]_vars

RootPath == <<"/", "a", "p", "i", "/">>

NotFoundResponse == [PlainResponse EXCEPT !.StatusCode = 404, !.Body = <<"chunk1">>]

MainWorkload ==
    [prefixes |-> {ApiPrefix, EmptyString}, backends |-> {ExampleBackend, <<":", "/">>},
     ports |-> {DefaultPort},
     slots |-> Slots, methods |-> {"GET"}, paths |-> {UsersPath, RootPath},
     queries |-> {EmptyString}, headers |-> {PlainHeader},
     callers |-> {"192.0.2.7"}, responses |-> {PlainResponse, NotFoundResponse},
     errors |-> {<<"timeout">>, <<"connection", "refused">>, <<"reset">>}]

Next == Startup(MainWorkload) \/ main \/ Serve(MainWorkload)

Spec == Init /\ [][Next]_vars

\* the steps of the request in slot r after it has been accepted
Progress(r) ==
    \/ ServeDirector(r)
    \/ ServeSend(r)
    \/ RoundTripResponse(r, MainWorkload)
    \/ RoundTripError(r, MainWorkload)
    \/ ServeModifyResponse(r)
    \/ CopyResponse(r)
    \/ CopyAbort(r)
    \/ ServeErrorHandler(r)
    \/ Finish(r)

\* every accepted request keeps running: goroutines are scheduled, and the
\* transport's dial and response-header timeouts (main.go 120, 127) end a
\* backend call that does not answer
FairSpec == Spec /\ \A r \in Slots : WF_vars(Progress(r))

ErrorStatuses == {StatusGatewayTimeout, StatusServiceUnavailable, StatusBadGateway}

\* the request in slot r has its caller-visible outcome
Answered(r) == conn[r].stage \in {"relaying", "done", "aborted"}

\* the backend's response has been relayed to the caller in full
RelayedWhole(r) ==
    /\ conn[r].stage = "done"
    /\ conn[r].resp # NoResponse
    /\ conn[r].err = EmptyString
    /\ conn[r].reply.status = conn[r].resp.StatusCode
    /\ conn[r].reply.Body = conn[r].resp.Body

\* the ErrorHandler has answered a transport failure with 502/503/504
ConvertedByErrorHandler(r) ==
    /\ conn[r].stage = "done"
    /\ conn[r].resp = NoResponse
    /\ conn[r].err # EmptyString
    /\ conn[r].reply.status = ErrorHandler(conn[r].err).status
    /\ conn[r].reply.status \in ErrorStatuses
    /\ conn[r].reply.Body = ErrorHandler(conn[r].err).body

\* the backend's status and headers were relayed, then the body stream broke
RelayedTruncated(r) ==
    /\ conn[r].stage = "aborted"
    /\ conn[r].resp # NoResponse
    /\ conn[r].err = EmptyString
    /\ conn[r].reply.status = conn[r].resp.StatusCode
    /\ Len(conn[r].reply.Body) < Len(conn[r].resp.Body)
    /\ conn[r].reply.Body = SubSeq(conn[r].resp.Body, 1, Len(conn[r].reply.Body))

\* exactly one status has been written for the request in slot r: the
\* backend's, or the ErrorHandler's for a failed round trip
OneOutcome(r) ==
    Answered(r) =>
        /\ conn[r].reply.writes = 1
        /\ conn[r].stage = "relaying" =>
              (conn[r].resp # NoResponse /\ conn[r].reply.status = conn[r].resp.StatusCode)
        /\ conn[r].stage = "done" => (RelayedWhole(r) \/ ConvertedByErrorHandler(r))
        /\ conn[r].stage = "aborted" => RelayedTruncated(r)

C9_RequestsIndependent ==
    /\ [][phase = "serving" => config' = config]_vars
    /\ [](\A r \in Slots :
            /\ Directed(r) => conn[r].out = Director(conn[r].in)
            /\ Sent(r) => conn[r].wire = OutboundRequest(conn[r].in, conn[r].out)
            /\ conn[r].stage = "done" => (RelayedWhole(r) \/ ConvertedByErrorHandler(r))
            /\ (phase = "serving" /\ conn[r].stage = "idle") =>
                  ENABLED Handler(r, MainWorkload)
            /\ conn[r].stage \notin {"idle"} => ENABLED Progress(r))

\* one request is waiting on the backend while another request, accepted
\* after it was sent, has already been answered
C9_Witness ==
    \E r, r2 \in Slots :
        /\ r # r2
        /\ conn[r].stage = "sent"
        /\ conn[r2].stage = "done"
        /\ conn[r].in.URL.Path # conn[r2].in.URL.Path
        /\ conn[r].out.URL.Path # conn[r2].out.URL.Path

=============================================================================
